---- MODULE Spec2Model ----
(***************************************************************************)
(* Model of runner.py: the size-constrained recompression of one PDF       *)
(* (render_pages_to_images, compose_images_to_target_size,                 *)
(* iterative_render_and_compress) and the row loop of main that drives it. *)
(***************************************************************************)
EXTENDS Integers, Sequences, FiniteSets, TLC

(* ----------------------------- configuration --------------------------- *)
MAX_TARGET_BYTES == 1048576
TARGET_WIDTH_PT == 595
TARGET_HEIGHT_PT == 842
START_DPI == 150
MIN_DPI == 72
START_JPEG_QUALITY == 85
MIN_JPEG_QUALITY == 30
DPI_STEP == 10
QUALITY_STEP == 5
BACKUP_ORIGINAL_TO_K == TRUE

(* ------------------------------- bounds -------------------------------- *)
\* pages of a source document: 0..MaxPages
MaxPages == 2
\* a raster differs from the canvas of its dpi by at most MaxSlack pixels
MaxSlack == 3
\* cap on the attempts of one search (never reached by the code as written)
MaxAttempts == 120

VARIABLES
  pc,          \* position of main: loop, download, search, render, compose, ...
  idx,         \* loop variable of main (0-based)
  urls,        \* column COL_URL as read at start
  docs,        \* per URL: the document the Document Source serves for it
  outCell,     \* column COL_OUTPUT of the sheet, per row
  flagCell,    \* column COL_FLAG of the sheet, per row
  npages,      \* len(doc) of the downloaded file
  dpi, q,      \* locals of iterative_render_and_compress
  images,      \* list returned by render_pages_to_images: sizes (w, h)
  canvases,    \* list built by compose_images_to_target_size: sizes
  fits,        \* per image: new_w, new_h and the paste offset
  size,        \* len(pdf_bytes) of the current attempt
  attempts,    \* the "try dpi= q= -> size" lines printed by this search
  result,      \* what iterative_render_and_compress returned, or NoResult
  uploaded_size, \* second component of upload_file_to_drive_bytes
  exc,         \* the exception being handled by main, or "none"
  rowlog       \* per row: what main did for it in this run

vars == <<pc, idx, urls, docs, outCell, flagCell, npages, dpi, q, images, canvases,
          fits, size, attempts, result, uploaded_size, exc, rowlog>>

searchVars == <<dpi, q, images, canvases, fits, size, attempts, result>>
sheetVars == <<outCell, flagCell>>

NoResult == [size |-> -1, dpi |-> 0, q |-> 0]
BlankCell == [tag |-> "", dpi |-> 0, q |-> 0, size |-> 0]
OldCell == [tag |-> "OLD", dpi |-> 0, q |-> 0, size |-> 0]
NoLog == [visited |-> FALSE, exc |-> "none", uploaded |-> FALSE, public |-> FALSE,
          kWritten |-> FALSE, outWritten |-> FALSE, flagWritten |-> FALSE,
          errWritten |-> FALSE, errWriteFailed |-> FALSE, attemptsAtRaise |-> -1,
          result |-> NoResult, tried |-> <<>>, pages |-> -1]

\* len(pdf_bytes): the sizes the encoder may produce for an attempt
EncodedSizes == {MAX_TARGET_BYTES - 1, MAX_TARGET_BYTES, MAX_TARGET_BYTES + 1}

(* --------------------------- float arithmetic -------------------------- *)
\* Python evaluates  int(c * (a / b))  for positive ints with IEEE doubles:
\* a / b is rounded to 53 bits, the product is rounded again, int truncates.
\* The operators below compute that value exactly with integers.

RECURSIVE Pow2(_)
Pow2(n) == IF n <= 0 THEN 1 ELSE 2 * Pow2(n - 1)

RECURSIVE Pow2Mod(_, _)
\* 2^e mod n
Pow2Mod(e, n) ==
  IF e = 0 THEN 1 % n
  ELSE IF e % 2 = 1 THEN (2 * Pow2Mod(e - 1, n)) % n
  ELSE LET h == Pow2Mod(e \div 2, n) IN (h * h) % n

RECURSIVE FloorLog2Up(_, _, _)
\* largest E >= 0 with b * 2^E <= a   (a >= b)
FloorLog2Up(a, b, E) == IF a >= 2 * b * Pow2(E) THEN FloorLog2Up(a, b, E + 1) ELSE E

RECURSIVE FloorLog2Down(_, _, _)
\* largest E < 0 with b <= a * 2^(-E)   (a < b)
FloorLog2Down(a, b, E) == IF a * Pow2(-E) < b THEN FloorLog2Down(a, b, E - 1) ELSE E

\* floor(log2(a / b))
FloorLog2(a, b) == IF a >= b THEN FloorLog2Up(a, b, 0) ELSE FloorLog2Down(a, b, -1)

\* a * 2^e - b * m, where m is a * 2^e / b rounded to nearest (ties to even)
\* and e = 52 - FloorLog2(a, b): the error of the double a / b, scaled.
DivRemainder(a, b) ==
  LET e == 52 - FloorLog2(a, b)
      rem == (a * Pow2Mod(e, b)) % b
      odd == (a * Pow2Mod(e, 2 * b)) % (2 * b) >= b
  IN  IF 2 * rem < b \/ (2 * rem = b /\ ~odd) THEN rem ELSE rem - b

\* int(c * (a / b)).  With K = floor(c * a / b): when b does not divide c * a
\* the exact product is at least 1/b away from an integer, far more than the
\* two roundings move it, so the result is K.  When c * a / b = K exactly, the
\* product is K - c * r / (b * 2^e) for the division error r: it rounds to the
\* double below K, and truncates to K - 1, exactly when r > 0 and that
\* deficit exceeds half the spacing of the doubles below K (a tie rounds to
\* K, whose significand is even).
FloatMulDivInt(c, a, b) ==
  LET K == (c * a) \div b
      s == (c * a) % b
  IN  IF s # 0 THEN K
      ELSE LET r == DivRemainder(a, b)
               L == FloorLog2(K, 1)
               g == IF K = Pow2(L) THEN L - 1 ELSE L
               x == g - FloorLog2(a, b) - 1
               below == IF x >= 0 THEN c * r > b * Pow2(x)
                                  ELSE c * r * Pow2(-x) > b
           IN  IF r > 0 /\ below THEN K - 1 ELSE K

(* ------------------------------ composing ------------------------------ *)
\* int(target_pt * dpi / 72): the quotient is exact or at least 1/72 away
\* from an integer, so the double truncates to the integer quotient
target_px(pt, d) == (pt * d) \div 72

\* ratio = min(target_w_px / w, target_h_px / h), as the fraction it rounds:
\* two different quotients of these sizes differ by far more than a rounding
\* error, so the doubles compare as the fractions do; min keeps its first
\* argument on a tie
ratio(w, h, tw, th) == IF th * w < tw * h THEN <<th, h>> ELSE <<tw, w>>

new_size(w, h, tw, th) ==
  LET r == ratio(w, h, tw, th)
  IN  <<FloatMulDivInt(w, r[1], r[2]), FloatMulDivInt(h, r[1], r[2])>>

paste_offset(nw, nh, tw, th) == <<(tw - nw) \div 2, (th - nh) \div 2>>

\* canvas_size with "or" for "and" in the test of line 159
canvas_size_either(nw, nh, tw, th) ==
  IF nw = tw \/ nh = th THEN <<nw, nh>> ELSE <<tw, th>>

\* the element appended to canvases for one image
canvas_size(nw, nh, tw, th) ==
  IF nw = tw /\ nh = th THEN <<nw, nh>> ELSE <<tw, th>>

fit_image(img, tw, th) ==
  LET n == new_size(img[1], img[2], tw, th)
  IN  [w |-> img[1], h |-> img[2], new_w |-> n[1], new_h |-> n[2],
       offset |-> paste_offset(n[1], n[2], tw, th),
       canvas |-> canvas_size(n[1], n[2], tw, th)]

\* sizes of the pixmaps the rasterizer may hand back at a dpi
RasterSizes(d) ==
  LET cw == target_px(TARGET_WIDTH_PT, d)
      ch == target_px(TARGET_HEIGHT_PT, d)
  IN  {<<cw, ch>>, <<cw - MaxSlack, ch - MaxSlack>>, <<cw, ch - MaxSlack>>,
       <<cw - MaxSlack, ch>>, <<cw + MaxSlack, ch + MaxSlack>>,
       <<1, ch + MaxSlack>>}

\* fit_image of every raster the rasterizer may hand back, per dpi: the
\* per-image results of lines 153-159, tabulated once
FitTable ==
  [d \in 1..(2 * START_DPI) |->
     [img \in RasterSizes(d) |->
        fit_image(img, target_px(TARGET_WIDTH_PT, d), target_px(TARGET_HEIGHT_PT, d))]]

(* ------------------------------ the search ----------------------------- *)
\* search_step with "<" for "<=" in the budget test
search_step_strict(d, qq, sz) ==
  IF sz < MAX_TARGET_BYTES THEN [ret |-> TRUE, dpi |-> d, q |-> qq]
  ELSE IF qq - QUALITY_STEP >= MIN_JPEG_QUALITY
       THEN [ret |-> FALSE, dpi |-> d, q |-> qq - QUALITY_STEP]
  ELSE IF d - DPI_STEP >= MIN_DPI
       THEN [ret |-> FALSE, dpi |-> d - DPI_STEP, q |-> START_JPEG_QUALITY]
  ELSE [ret |-> TRUE, dpi |-> d, q |-> qq]

\* search_step that tests the quality before the step instead of after it
search_step_quality_below(d, qq, sz) ==
  IF sz <= MAX_TARGET_BYTES THEN [ret |-> TRUE, dpi |-> d, q |-> qq]
  ELSE IF qq >= MIN_JPEG_QUALITY
       THEN [ret |-> FALSE, dpi |-> d, q |-> qq - QUALITY_STEP]
  ELSE IF d - DPI_STEP >= MIN_DPI
       THEN [ret |-> FALSE, dpi |-> d - DPI_STEP, q |-> START_JPEG_QUALITY]
  ELSE [ret |-> TRUE, dpi |-> d, q |-> qq]

\* search_step that tests the dpi before the step instead of after it
search_step_dpi_below(d, qq, sz) ==
  IF sz <= MAX_TARGET_BYTES THEN [ret |-> TRUE, dpi |-> d, q |-> qq]
  ELSE IF qq - QUALITY_STEP >= MIN_JPEG_QUALITY
       THEN [ret |-> FALSE, dpi |-> d, q |-> qq - QUALITY_STEP]
  ELSE IF d >= MIN_DPI
       THEN [ret |-> FALSE, dpi |-> d - DPI_STEP, q |-> START_JPEG_QUALITY]
  ELSE [ret |-> TRUE, dpi |-> d, q |-> qq]

\* search_step that forgets to reset the quality when the dpi drops
search_step_no_reset(d, qq, sz) ==
  IF sz <= MAX_TARGET_BYTES THEN [ret |-> TRUE, dpi |-> d, q |-> qq]
  ELSE IF qq - QUALITY_STEP >= MIN_JPEG_QUALITY
       THEN [ret |-> FALSE, dpi |-> d, q |-> qq - QUALITY_STEP]
  ELSE IF d - DPI_STEP >= MIN_DPI
       THEN [ret |-> FALSE, dpi |-> d - DPI_STEP, q |-> qq]
  ELSE [ret |-> TRUE, dpi |-> d, q |-> qq]

\* search_step with the sign of the dpi step flipped
search_step_dpi_up(d, qq, sz) ==
  IF sz <= MAX_TARGET_BYTES THEN [ret |-> TRUE, dpi |-> d, q |-> qq]
  ELSE IF qq - QUALITY_STEP >= MIN_JPEG_QUALITY
       THEN [ret |-> FALSE, dpi |-> d, q |-> qq - QUALITY_STEP]
  ELSE IF d - DPI_STEP >= MIN_DPI
       THEN [ret |-> FALSE, dpi |-> d + DPI_STEP, q |-> START_JPEG_QUALITY]
  ELSE [ret |-> TRUE, dpi |-> d, q |-> qq]

\* search_step that resets the quality but forgets to lower the dpi
search_step_dpi_kept(d, qq, sz) ==
  IF sz <= MAX_TARGET_BYTES THEN [ret |-> TRUE, dpi |-> d, q |-> qq]
  ELSE IF qq - QUALITY_STEP >= MIN_JPEG_QUALITY
       THEN [ret |-> FALSE, dpi |-> d, q |-> qq - QUALITY_STEP]
  ELSE IF d - DPI_STEP >= MIN_DPI
       THEN [ret |-> FALSE, dpi |-> d, q |-> START_JPEG_QUALITY]
  ELSE [ret |-> TRUE, dpi |-> d, q |-> qq]

\* the decision after one attempt: return it, or the next (dpi, quality)
search_step(d, qq, sz) ==
  IF sz <= MAX_TARGET_BYTES THEN [ret |-> TRUE, dpi |-> d, q |-> qq]
  ELSE IF qq - QUALITY_STEP >= MIN_JPEG_QUALITY
       THEN [ret |-> FALSE, dpi |-> d, q |-> qq - QUALITY_STEP]
  ELSE IF d - DPI_STEP >= MIN_DPI
       THEN [ret |-> FALSE, dpi |-> d - DPI_STEP, q |-> START_JPEG_QUALITY]
  ELSE [ret |-> TRUE, dpi |-> d, q |-> qq]

\* position of (d, qq) in the order the search visits configurations
config_index(d, qq) ==
  ((START_DPI - d) \div DPI_STEP)
     * (((START_JPEG_QUALITY - MIN_JPEG_QUALITY) \div QUALITY_STEP) + 1)
   + ((START_JPEG_QUALITY - qq) \div QUALITY_STEP) + 1

\* A document: its possible page counts and how its pages encode.  fitAt = 0
\* leaves the encoded size of every attempt open; fitAt = k > 0 is a
\* document whose encoding is a function of (dpi, quality) that fits the
\* budget from the k-th configuration of the search order on.
FreeDoc == [pages |-> 0..MaxPages, fitAt |-> 0]

\* len(pdf_bytes) for a document at (d, qq)
encoded_sizes(doc, d, qq) ==
  IF doc.fitAt = 0 THEN EncodedSizes
  ELSE IF config_index(d, qq) >= doc.fitAt THEN {MAX_TARGET_BYTES}
  ELSE {MAX_TARGET_BYTES + 1}

(* -------------------------------- main --------------------------------- *)
rows_count == Len(urls)
row == idx + 1
Log(field, val) == [rowlog EXCEPT ![row] = [@ EXCEPT ![field] = val]]
Raise(kind) ==
  /\ exc' = kind
  /\ pc' = "except"
  /\ rowlog' = [rowlog EXCEPT ![row] = [@ EXCEPT !.exc = kind,
                                           !.attemptsAtRaise = Len(attempts),
                                           !.tried = attempts]]

\* a sheet with one data row: its URL cell and its output cell may be filled
Init ==
  /\ pc = "loop"
  /\ idx = 0
  /\ urls \in {<<"">>, <<"url">>}
  /\ docs = [u \in {"url"} |-> FreeDoc]
  /\ \E old \in BOOLEAN :
       /\ outCell = [r \in 1..Len(urls) |-> IF old THEN "OLD" ELSE ""]
       /\ flagCell = [r \in 1..Len(urls) |-> IF old THEN OldCell ELSE BlankCell]
  /\ npages = 0
  /\ dpi = 0 /\ q = 0
  /\ images = <<>> /\ canvases = <<>> /\ fits = <<>>
  /\ size = 0
  /\ attempts = <<>>
  /\ result = NoResult
  /\ uploaded_size = 0
  /\ exc = "none"
  /\ rowlog = [r \in 1..Len(urls) |-> NoLog]

\* for idx in range(rows_count): exhausted
main_loop_end ==
  /\ pc = "loop" /\ idx = rows_count
  /\ pc' = "done"
  /\ UNCHANGED <<idx, urls, docs, sheetVars, npages, searchVars, uploaded_size, exc, rowlog>>

\* if not url: continue
main_skip_empty_url ==
  /\ pc = "loop" /\ idx < rows_count
  /\ urls[row] = ""
  /\ idx' = idx + 1
  /\ UNCHANGED <<pc, urls, docs, sheetVars, npages, searchVars, uploaded_size, exc, rowlog>>

\* the output cell was read and holds a value: continue
main_skip_processed ==
  /\ pc = "loop" /\ idx < rows_count
  /\ urls[row] # ""
  /\ outCell[row] # ""
  /\ idx' = idx + 1
  /\ UNCHANGED <<pc, urls, docs, sheetVars, npages, searchVars, uploaded_size, exc, rowlog>>

\* the output cell is empty, or reading it raised (a warning is printed)
main_begin_row ==
  /\ pc = "loop" /\ idx < rows_count
  /\ urls[row] # ""
  /\ \E readFails \in BOOLEAN : readFails \/ outCell[row] = ""
  /\ pc' = "download"
  /\ rowlog' = Log("visited", TRUE)
  /\ UNCHANGED <<idx, urls, docs, sheetVars, npages, searchVars, uploaded_size, exc>>

\* dl_size = download_url_to_file(...): a file of some page count, or raises
download_url_to_file ==
  /\ pc = "download"
  /\ \/ /\ npages' \in docs[urls[row]].pages
        /\ rowlog' = Log("pages", npages')
        /\ pc' = "search"
        /\ UNCHANGED exc
     \/ /\ Raise("download")
        /\ UNCHANGED npages
  /\ UNCHANGED <<idx, urls, docs, sheetVars, searchVars, uploaded_size>>

\* a search whose dpi and quality outlive the call: a later call resumes
\* from the configuration the earlier one ended at
iterative_render_and_compress_resumed ==
  /\ pc = "search"
  /\ dpi' = (IF dpi = 0 THEN START_DPI ELSE dpi)
  /\ q' = (IF q = 0 THEN START_JPEG_QUALITY ELSE q)
  /\ attempts' = <<>>
  /\ result' = NoResult
  /\ pc' = "render"
  /\ UNCHANGED <<idx, urls, docs, sheetVars, npages, images, canvases, fits, size,
                 uploaded_size, exc, rowlog>>

\* entry of the search: dpi, q = START_DPI, START_JPEG_QUALITY
iterative_render_and_compress ==
  /\ pc = "search"
  /\ dpi' = START_DPI /\ q' = START_JPEG_QUALITY
  /\ attempts' = <<>>
  /\ result' = NoResult
  /\ pc' = "render"
  /\ UNCHANGED <<idx, urls, docs, sheetVars, npages, images, canvases, fits, size,
                 uploaded_size, exc, rowlog>>

\* images = render_pages_to_images(path, dpi): one pixmap per page, or raises
render_pages_to_images ==
  /\ pc = "render"
  /\ Len(attempts) < MaxAttempts
  /\ \/ /\ images' \in [1..npages -> RasterSizes(dpi)]
        /\ pc' = "compose"
        /\ UNCHANGED <<exc, rowlog>>
     \/ /\ Raise("render")
        /\ UNCHANGED images
  /\ UNCHANGED <<idx, urls, docs, sheetVars, npages, dpi, q, canvases, fits, size,
                 attempts, result, uploaded_size>>

\* pdf_bytes = compose_images_to_target_size(images, w, h, dpi, q); size = len(pdf_bytes)
\* An exception leaves the search, whose locals are then gone.
\* an empty list saved as an empty file instead of canvases[0] raising
no_first_canvas_tolerated(imgs) == FALSE

\* line 161: canvases[0] of a list with no canvas raises IndexError
no_first_canvas(imgs) == Len(imgs) = 0

compose_images_to_target_size ==
  /\ pc = "compose"
  /\ LET fit == [i \in 1..Len(images) |-> FitTable[dpi][images[i]]]
         \* img.resize rejects an empty size
         empty == {i \in 1..Len(images) : fit[i].new_w < 1 \/ fit[i].new_h < 1}
     IN  IF empty # {}
         THEN /\ Raise("resize")
              /\ images' = <<>> /\ fits' = <<>> /\ canvases' = <<>>
              /\ UNCHANGED <<size, attempts>>
         ELSE IF no_first_canvas(images)
         THEN \* canvases[0] of an empty list
              /\ Raise("no pages")
              /\ UNCHANGED <<images, fits, canvases, size, attempts>>
         ELSE \/ /\ fits' = fit
                 /\ canvases' = [i \in 1..Len(images) |-> fit[i].canvas]
                 /\ size' \in encoded_sizes(docs[urls[row]], dpi, q)
                 /\ attempts' = Append(attempts,
                                       [dpi |-> dpi, q |-> q, size |-> size'])
                 /\ pc' = "decide"
                 /\ UNCHANGED <<images, exc, rowlog>>
              \/ /\ Raise("encode")
                 /\ images' = <<>> /\ fits' = <<>> /\ canvases' = <<>>
                 /\ UNCHANGED <<size, attempts>>
  /\ UNCHANGED <<idx, urls, docs, sheetVars, npages, dpi, q, result, uploaded_size>>

\* a search that keeps the rasters of the attempt for a quality-only step
\* and composes them again without rasterizing
search_decide_reuse ==
  /\ pc = "decide"
  /\ LET s == search_step(dpi, q, size)
     IN  IF s.ret
         THEN /\ result' = [size |-> size, dpi |-> s.dpi, q |-> s.q]
              /\ rowlog' = [rowlog EXCEPT ![row] =
                              [@ EXCEPT !.result = result', !.tried = attempts]]
              /\ pc' = "upload"
              /\ images' = <<>>
              /\ UNCHANGED <<dpi, q>>
         ELSE /\ dpi' = s.dpi /\ q' = s.q
              /\ IF s.dpi = dpi
                 THEN pc' = "compose" /\ UNCHANGED images
                 ELSE pc' = "render" /\ images' = <<>>
              /\ UNCHANGED <<result, rowlog>>
  /\ size' = 0
  /\ canvases' = <<>> /\ fits' = <<>>
  /\ UNCHANGED <<idx, urls, docs, sheetVars, npages, attempts, uploaded_size, exc>>

\* lines 172-180: return this attempt or step to the next configuration
search_decide ==
  /\ pc = "decide"
  /\ LET s == search_step(dpi, q, size)
     IN  IF s.ret
         THEN /\ result' = [size |-> size, dpi |-> s.dpi, q |-> s.q]
              /\ rowlog' = [rowlog EXCEPT ![row] =
                              [@ EXCEPT !.result = result', !.tried = attempts]]
              /\ pc' = "upload"
              /\ UNCHANGED <<dpi, q>>
         ELSE /\ dpi' = s.dpi /\ q' = s.q
              /\ pc' = "render"
              /\ UNCHANGED <<result, rowlog>>
  \* the lists and bytes of this attempt are not read again: line 168
  \* rebinds images, and canvases is a local of the composer
  /\ images' = <<>> /\ size' = 0
  /\ canvases' = <<>> /\ fits' = <<>>
  /\ UNCHANGED <<idx, urls, docs, sheetVars, npages, attempts, uploaded_size, exc>>

\* what the create response reports: the size, or no size field (0)
ReportedSizes(sz) == {sz, 0}

\* file_id, uploaded_size = upload_file_to_drive_bytes(...)
upload_file_to_drive_bytes ==
  /\ pc = "upload"
  /\ \/ /\ uploaded_size' \in ReportedSizes(result.size)
        /\ rowlog' = Log("uploaded", TRUE)
        /\ pc' = "set_public"
        /\ UNCHANGED exc
     \/ /\ Raise("upload")
        /\ UNCHANGED uploaded_size
  /\ UNCHANGED <<idx, urls, docs, sheetVars, npages, searchVars>>

\* set_file_public_anyone: a failure is printed and swallowed
set_file_public_anyone ==
  /\ pc = "set_public"
  /\ \E ok \in BOOLEAN : rowlog' = Log("public", ok)
  /\ pc' = "backup"
  /\ UNCHANGED <<idx, urls, docs, sheetVars, npages, searchVars, uploaded_size, exc>>

\* if BACKUP_ORIGINAL_TO_K: write the url to K when K is empty; failures swallowed
main_backup_original ==
  /\ pc = "backup"
  /\ IF BACKUP_ORIGINAL_TO_K
     THEN \E written \in BOOLEAN : rowlog' = Log("kWritten", written)
     ELSE UNCHANGED rowlog
  /\ pc' = "write_output"
  /\ UNCHANGED <<idx, urls, docs, sheetVars, npages, searchVars, uploaded_size, exc>>

\* sheet_update_cell(..., COL_OUTPUT, view_url)
main_write_output ==
  /\ pc = "write_output"
  /\ \/ /\ outCell' = [outCell EXCEPT ![row] = "VIEW"]
        /\ rowlog' = Log("outWritten", TRUE)
        /\ pc' = "write_flag"
        /\ UNCHANGED exc
     \/ /\ Raise("write_output")
        /\ UNCHANGED outCell
  /\ UNCHANGED <<idx, urls, docs, flagCell, npages, searchVars, uploaded_size>>

\* flag = "COMPRESSED" if uploaded_size <= MAX_TARGET_BYTES else "LARGE_FILE"
flag_of(us) == IF us <= MAX_TARGET_BYTES THEN "COMPRESSED" ELSE "LARGE_FILE"

\* sheet_update_cell(..., COL_FLAG, f"{flag} dpi=.. q=.. size=..")
main_write_flag ==
  /\ pc = "write_flag"
  /\ \/ /\ flagCell' = [flagCell EXCEPT ![row] =
              [tag |-> flag_of(uploaded_size), dpi |-> result.dpi,
               q |-> result.q, size |-> uploaded_size]]
        /\ rowlog' = Log("flagWritten", TRUE)
        /\ pc' = "finally"
        /\ UNCHANGED exc
     \/ /\ Raise("write_flag")
        /\ UNCHANGED flagCell
  /\ UNCHANGED <<idx, urls, docs, outCell, npages, searchVars, uploaded_size>>

\* main_except that only prints the error and writes nothing
main_except_print_only ==
  /\ pc = "except"
  /\ pc' = "finally"
  /\ UNCHANGED <<idx, urls, docs, sheetVars, npages, searchVars, uploaded_size, exc, rowlog>>

\* a handler whose failed ERROR write is not caught: the run ends there
main_except_unguarded ==
  /\ pc = "except"
  /\ \/ /\ flagCell' = [flagCell EXCEPT ![row] =
              [tag |-> "ERROR", dpi |-> 0, q |-> 0, size |-> 0]]
        /\ rowlog' = Log("errWritten", TRUE)
        /\ pc' = "finally"
     \/ /\ rowlog' = Log("errWriteFailed", TRUE)
        /\ pc' = "crashed"
        /\ UNCHANGED flagCell
  /\ UNCHANGED <<idx, urls, docs, outCell, npages, searchVars, uploaded_size, exc>>

\* except Exception: write "ERROR: ..." to the flag cell; a failure is printed
main_except ==
  /\ pc = "except"
  /\ \/ /\ flagCell' = [flagCell EXCEPT ![row] =
              [tag |-> "ERROR", dpi |-> 0, q |-> 0, size |-> 0]]
        /\ rowlog' = Log("errWritten", TRUE)
     \/ /\ rowlog' = Log("errWriteFailed", TRUE)
        /\ UNCHANGED flagCell
  /\ pc' = "finally"
  /\ UNCHANGED <<idx, urls, docs, outCell, npages, searchVars, uploaded_size, exc>>

\* finally: os.remove(tmp.name); next row
main_finally ==
  /\ pc = "finally"
  /\ idx' = idx + 1
  /\ pc' = "loop"
  /\ exc' = "none"
  /\ UNCHANGED <<urls, docs, sheetVars, npages, searchVars, uploaded_size, rowlog>>

Next ==
  \/ main_loop_end
  \/ main_skip_empty_url
  \/ main_skip_processed
  \/ main_begin_row
  \/ download_url_to_file
  \/ iterative_render_and_compress
  \/ render_pages_to_images
  \/ compose_images_to_target_size
  \/ search_decide
  \/ upload_file_to_drive_bytes
  \/ set_file_public_anyone
  \/ main_backup_original
  \/ main_write_output
  \/ main_write_flag
  \/ main_except
  \/ main_finally

Spec == Init /\ [][Next]_vars

(* ------------------------- one call of the search --------------------- *)
\* main has downloaded a document and calls iterative_render_and_compress
SearchInit ==
  /\ pc = "search"
  /\ idx = 0
  /\ urls = <<"url">>
  /\ docs = [u \in {"url"} |-> FreeDoc]
  /\ outCell = <<"">>
  /\ flagCell = <<BlankCell>>
  /\ npages \in 0..MaxPages
  /\ dpi = 0 /\ q = 0
  /\ images = <<>> /\ canvases = <<>> /\ fits = <<>>
  /\ size = 0
  /\ attempts = <<>>
  /\ result = NoResult
  /\ uploaded_size = 0
  /\ exc = "none"
  /\ rowlog = <<[NoLog EXCEPT !.visited = TRUE]>>

\* the steps of the call, up to its return or to the exception that leaves it
SearchNext ==
  \/ iterative_render_and_compress
  \/ render_pages_to_images
  \/ compose_images_to_target_size
  \/ search_decide

\* the interpreter keeps executing the call: no step of it waits on anything
LiveSpec == SearchInit /\ [][SearchNext]_vars /\ WF_vars(SearchNext)

(* ------------------------- a sheet of several rows --------------------- *)
\* the latest configuration of the search order at which a document of the
\* ledger runs starts to fit the budget
MaxFitAt == 2

\* Sheets of a ledger run: column COL_URL and column COL_OUTPUT at the
\* start.  Every URL names the same document "a".
Sheets ==
  { [urls |-> <<"a", "a">>,     out |-> <<"", "">>],
    [urls |-> <<"a", "", "a">>, out |-> <<"", "", "">>],
    [urls |-> <<"a", "a">>,     out |-> <<"OLD", "">>],
    [urls |-> <<"", "a">>,      out |-> <<"", "OLD">>] }

\* main starts on a sheet of several rows; the document behind the URL has
\* one page and encodes to a size that is a function of (dpi, quality)
LedgerInit ==
  /\ pc = "loop"
  /\ idx = 0
  /\ \E sheet \in Sheets :
       /\ urls = sheet.urls
       /\ outCell = sheet.out
       /\ flagCell = [r \in 1..Len(sheet.urls) |->
                        IF sheet.out[r] = "" THEN BlankCell ELSE OldCell]
  /\ \E k \in 1..MaxFitAt : docs = [u \in {"a"} |-> [pages |-> {1}, fitAt |-> k]]
  /\ npages = 0
  /\ dpi = 0 /\ q = 0
  /\ images = <<>> /\ canvases = <<>> /\ fits = <<>>
  /\ size = 0
  /\ attempts = <<>>
  /\ result = NoResult
  /\ uploaded_size = 0
  /\ exc = "none"
  /\ rowlog = [r \in 1..Len(urls) |-> NoLog]

LedgerSpec == LedgerInit /\ [][Next]_vars

\* the interpreter keeps executing main: every call it makes returns or raises
LedgerLive == LedgerSpec /\ WF_vars(Next)

(* ------------------------------ properties ----------------------------- *)
Returned == result # NoResult
AttemptedPairs == [i \in 1..Len(attempts) |-> <<attempts[i].dpi, attempts[i].q>>]
Finished(r) == idx >= r
Rows == 1..rows_count

\* C1: whenever the returned size exceeds MAX_TARGET_BYTES, the returned dpi
\* is MIN_DPI and the returned quality is MIN_JPEG_QUALITY.
C1_FloorPostcondition ==
  (Returned /\ result.size > MAX_TARGET_BYTES)
    => (result.dpi = MIN_DPI /\ result.q = MIN_JPEG_QUALITY)

\* C2: a returned size within MAX_TARGET_BYTES belongs to the last attempt
\* made, and every earlier attempt of the call was over MAX_TARGET_BYTES.
C2_SuccessPostcondition ==
  (Returned /\ result.size <= MAX_TARGET_BYTES)
    => /\ Len(attempts) >= 1
       /\ attempts[Len(attempts)] =
            [dpi |-> result.dpi, q |-> result.q, size |-> result.size]
       /\ \A i \in 1..(Len(attempts) - 1) : attempts[i].size > MAX_TARGET_BYTES

\* a within-budget result found after several over-budget attempts
C2_Witness ==
  /\ Returned /\ result.size <= MAX_TARGET_BYTES
  /\ Len(attempts) > 12

CeilDiv(a, b) == (a + b - 1) \div b

\* C3 as stated: the attempts of one call never exceed
\* ceil((START_JPEG_QUALITY - MIN_JPEG_QUALITY) / QUALITY_STEP)
\*   * ceil((START_DPI - MIN_DPI) / DPI_STEP) = 11 * 8 = 88.
C3_CeilBound ==
  Len(attempts) <= CeilDiv(START_JPEG_QUALITY - MIN_JPEG_QUALITY, QUALITY_STEP)
                     * CeilDiv(START_DPI - MIN_DPI, DPI_STEP)

\* C3 amended: the attempts of one call never exceed the number of grid
\* points, (floor((START_JPEG_QUALITY - MIN_JPEG_QUALITY) / QUALITY_STEP) + 1)
\*   * (floor((START_DPI - MIN_DPI) / DPI_STEP) + 1) = 12 * 8 = 96.
C3_GridBound ==
  Len(attempts) <= (((START_JPEG_QUALITY - MIN_JPEG_QUALITY) \div QUALITY_STEP) + 1)
                     * (((START_DPI - MIN_DPI) \div DPI_STEP) + 1)

\* the search that never fits: all 96 attempts made and the last one returned
C3_Witness == Returned /\ Len(attempts) = 96

RECURSIVE QualityRun(_, _)
\* for quality from qq down by QUALITY_STEP while >= MIN_JPEG_QUALITY
QualityRun(d, qq) ==
  IF qq < MIN_JPEG_QUALITY THEN <<>>
  ELSE <<<<d, qq>>>> \o QualityRun(d, qq - QUALITY_STEP)

RECURSIVE DpiRun(_)
\* for dpi from d down by DPI_STEP while >= MIN_DPI, for quality ...
DpiRun(d) ==
  IF d < MIN_DPI THEN <<>>
  ELSE QualityRun(d, START_JPEG_QUALITY) \o DpiRun(d - DPI_STEP)

ReferenceEnumeration == DpiRun(START_DPI)

\* C4: the attempted (dpi, quality) pairs are a prefix of the reference
\* enumeration, the configuration about to be attempted is its next element,
\* and an over-budget attempt is returned only at its end.
C4_ReferenceOrder ==
  LET ref == ReferenceEnumeration
      n == Len(attempts)
  IN  /\ n <= Len(ref)
      /\ \A i \in 1..n : AttemptedPairs[i] = ref[i]
      /\ pc \in {"render", "compose"} => (n < Len(ref) /\ <<dpi, q>> = ref[n + 1])
      /\ (Returned /\ result.size > MAX_TARGET_BYTES) => n = Len(ref)

\* a search that went through a dpi step and a quality reset
C4_Witness ==
  /\ pc = "decide"
  /\ Len(attempts) > 13
  /\ dpi < START_DPI /\ q < START_JPEG_QUALITY

\* C5: at every attempt and at return, quality is within
\* [MIN_JPEG_QUALITY, START_JPEG_QUALITY] and dpi within [MIN_DPI, START_DPI].
C5_RangeInvariant ==
  /\ pc \in {"render", "compose", "decide"}
       => /\ MIN_JPEG_QUALITY <= q /\ q <= START_JPEG_QUALITY
          /\ MIN_DPI <= dpi /\ dpi <= START_DPI
  /\ Returned
       => /\ MIN_JPEG_QUALITY <= result.q /\ result.q <= START_JPEG_QUALITY
          /\ MIN_DPI <= result.dpi /\ result.dpi <= START_DPI
  /\ \A i \in 1..Len(attempts) :
       /\ MIN_JPEG_QUALITY <= attempts[i].q /\ attempts[i].q <= START_JPEG_QUALITY
       /\ MIN_DPI <= attempts[i].dpi /\ attempts[i].dpi <= START_DPI

\* the lowest configuration of the search, being attempted
C5_Witness ==
  /\ pc = "compose"
  /\ q = MIN_JPEG_QUALITY
  /\ dpi - DPI_STEP < MIN_DPI

\* C6: from one attempt to the next, dpi does not increase, and quality does
\* not increase while dpi is unchanged.
C6_MonotonicOrder ==
  \A i \in 1..(Len(attempts) - 1) :
    /\ attempts[i + 1].dpi <= attempts[i].dpi
    /\ attempts[i + 1].dpi = attempts[i].dpi => attempts[i + 1].q <= attempts[i].q

\* two successive attempts where the quality went up
C6_Witness ==
  \E i \in 1..(Len(attempts) - 1) : attempts[i + 1].q > attempts[i].q

\* C7: a search that was entered ends: it returns to main, or an exception
\* of the rasterizer, the composer or the encoder leaves it.
C7_SearchTerminates == (pc = "search") ~> (pc \in {"upload", "except"})

\* a search that returned after an over-budget attempt
C7_Witness == pc = "upload" /\ Len(attempts) > 1

\* C8 as stated: after a row whose rasterization raised, nothing was returned
\* or retried, nothing was uploaded, the output cell was not written and the
\* flag cell holds an ERROR status.
C8_DecodeFailureRecorded ==
  /\ (pc \in {"except", "finally"} /\ exc = "render")
       => (~Returned /\ Len(attempts) = rowlog[row].attemptsAtRaise)
  /\ \A r \in Rows :
       (Finished(r) /\ rowlog[r].exc = "render")
         => /\ ~rowlog[r].uploaded
            /\ ~rowlog[r].outWritten
            /\ flagCell[r].tag = "ERROR"

\* C8 amended: after a row whose rasterization raised, nothing was returned
\* or retried, nothing was uploaded, neither the output cell nor a
\* COMPRESSED/LARGE_FILE flag was written, and the flag cell holds an ERROR
\* status unless the write of that status itself raised, which leaves the
\* flag cell as it was.
C8_DecodeFailureAttempted ==
  /\ (pc \in {"except", "finally"} /\ exc = "render")
       => (~Returned /\ Len(attempts) = rowlog[row].attemptsAtRaise)
  /\ \A r \in Rows :
       (Finished(r) /\ rowlog[r].exc = "render")
         => /\ ~rowlog[r].uploaded
            /\ ~rowlog[r].outWritten
            /\ ~rowlog[r].flagWritten
            /\ IF rowlog[r].errWriteFailed
               THEN flagCell[r] \in {BlankCell, OldCell}
               ELSE flagCell[r].tag = "ERROR"

\* a row finished after the rasterizer raised at a later attempt
C8_Witness ==
  \E r \in Rows :
    /\ Finished(r) /\ rowlog[r].exc = "render"
    /\ rowlog[r].attemptsAtRaise > 0
    /\ flagCell[r].tag = "ERROR"

\* a / b rounded to the nearest integer
RoundDiv(a, b) == (2 * a + b) \div (2 * b)

C10_TightFit ==
  pc = "decide"
    => LET tw == target_px(TARGET_WIDTH_PT, dpi)
           th == target_px(TARGET_HEIGHT_PT, dpi)
       IN  \A i \in 1..Len(fits) :
             /\ fits[i].new_w <= tw /\ fits[i].new_h <= th
             /\ fits[i].new_w = tw \/ fits[i].new_h = th
             /\ fits[i].offset[1] >= 0 /\ fits[i].offset[2] >= 0
             /\ (fits[i].new_w = tw /\ fits[i].new_h = th)
                  => fits[i].offset = <<0, 0>>

\* C11 as stated: a row whose downloaded document has zero pages raises
\* before any attempt completes and returns no result; nothing is uploaded,
\* the output cell is not written and the flag cell holds an ERROR status.
C11_ZeroPagesRecorded ==
  \A r \in Rows :
    (Finished(r) /\ rowlog[r].pages = 0)
      => /\ rowlog[r].exc \in {"render", "no pages"}
         /\ rowlog[r].result = NoResult
         /\ rowlog[r].attemptsAtRaise = 0
         /\ ~rowlog[r].uploaded
         /\ ~rowlog[r].outWritten
         /\ flagCell[r].tag = "ERROR"

\* C11 amended: a row whose downloaded document has zero pages raises
\* before any attempt completes and returns no result; nothing is uploaded,
\* neither the output cell nor a COMPRESSED/LARGE_FILE flag is written, and
\* the flag cell holds an ERROR status unless the write of that status
\* itself raised, which leaves the flag cell as it was.
C11_ZeroPagesAttempted ==
  \A r \in Rows :
    (Finished(r) /\ rowlog[r].pages = 0)
      => /\ rowlog[r].exc \in {"render", "no pages"}
         /\ rowlog[r].result = NoResult
         /\ rowlog[r].attemptsAtRaise = 0
         /\ ~rowlog[r].uploaded
         /\ ~rowlog[r].outWritten
         /\ ~rowlog[r].flagWritten
         /\ IF rowlog[r].errWriteFailed
            THEN flagCell[r] \in {BlankCell, OldCell}
            ELSE flagCell[r].tag = "ERROR"

\* a finished row of a zero-page document: the composer raised on the empty
\* canvas list and the ERROR status was written
C11_Witness ==
  \E r \in Rows :
    /\ Finished(r) /\ rowlog[r].pages = 0
    /\ rowlog[r].exc = "no pages"
    /\ flagCell[r].tag = "ERROR"

\* C12: two searches over the same document that both returned attempted
\* the same sequence of (dpi, quality, size) and returned the same
\* (dpi, quality, size).
C12_Deterministic ==
  \A r1, r2 \in Rows :
    ( /\ Finished(r1) /\ Finished(r2)
      /\ urls[r1] = urls[r2]
      /\ rowlog[r1].result # NoResult /\ rowlog[r2].result # NoResult )
      => /\ rowlog[r1].tried = rowlog[r2].tried
         /\ rowlog[r1].result = rowlog[r2].result

\* two finished rows of the same document whose searches both returned
\* after an over-budget attempt
C12_Witness ==
  \E r1, r2 \in Rows :
    /\ r1 < r2 /\ Finished(r2)
    /\ urls[r1] = urls[r2]
    /\ rowlog[r1].result # NoResult /\ rowlog[r2].result # NoResult
    /\ Len(rowlog[r1].tried) > 1 /\ Len(rowlog[r2].tried) > 1

\* C13: every attempt is a rasterization of all pages at the attempt's dpi,
\* then the composition and encoding of exactly those rasters at the
\* attempt's quality, then the decision; the decision is followed by a new
\* rasterization or by the return, never by a composition of kept rasters.
C13_AttemptOrder ==
  [][ /\ (pc = "render" /\ pc' # "render") => pc' \in {"compose", "except"}
      /\ pc' = "compose"
           => /\ pc = "render"
              /\ Len(images') = npages
              /\ \A i \in 1..npages : images'[i] \in RasterSizes(dpi)
      /\ pc' = "decide"
           => /\ pc = "compose"
              /\ Len(canvases') = Len(images)
              /\ \A i \in 1..Len(images) :
                   canvases'[i] = fit_image(images[i],
                                            target_px(TARGET_WIDTH_PT, dpi),
                                            target_px(TARGET_HEIGHT_PT, dpi)).canvas
              /\ attempts' = Append(attempts, [dpi |-> dpi, q |-> q, size |-> size'])
      /\ pc = "decide"
           => /\ pc' \in {"render", "upload"}
              /\ images' = <<>> /\ canvases' = <<>>
      /\ (pc' = "render" /\ pc # "render") => pc \in {"search", "decide"}
    ]_vars

\* the pages were rasterized again after a step that lowered only the quality
C13_Witness ==
  /\ pc = "compose"
  /\ images # <<>>
  /\ attempts # <<>>
  /\ attempts[Len(attempts)].dpi = dpi
  /\ attempts[Len(attempts)].q = q + QUALITY_STEP

\* C14: for every row completed without an exception, the flag written is
\* LARGE_FILE if and only if the size the search returned exceeds
\* MAX_TARGET_BYTES, and COMPRESSED otherwise, whatever the upload reported.
C14_FlagMatchesSearch ==
  \A r \in Rows :
    (Finished(r) /\ rowlog[r].flagWritten /\ rowlog[r].exc = "none")
      => flagCell[r].tag = (IF rowlog[r].result.size > MAX_TARGET_BYTES
                            THEN "LARGE_FILE" ELSE "COMPRESSED")

\* C15: a row whose output cell holds a value at the start of the run is
\* never begun (no download, search or upload) and its output and flag
\* cells stay as they were, also when the read of the output cell fails.
C15_ProcessedRowsUntouched ==
  [][ \A r \in Rows :
        (outCell[r] # "" /\ ~rowlog[r].visited)
          => /\ ~rowlog'[r].visited
             /\ outCell'[r] = outCell[r]
             /\ flagCell'[r] = flagCell[r]
    ]_vars

\* C16: rows are begun one at a time in ascending order and never twice; a
\* row that raised at any step, also in the write of its ERROR status, is
\* followed by the next row; at the end every row with a URL and an empty
\* output cell was attempted; and the run reaches the end of the row list.
C16_RowIsolation ==
  /\ [][ /\ idx' \in {idx, idx + 1}
         /\ \A r \in Rows :
              rowlog'[r] # rowlog[r] => (r = idx + 1 /\ idx' = idx)
         /\ (pc = "loop" /\ pc' = "download") => ~rowlog[idx + 1].visited
     ]_vars
  /\ [](pc = "done"
         => /\ idx = rows_count
            /\ \A r \in Rows :
                 urls[r] # "" => (rowlog[r].visited \/ outCell[r] # ""))
  /\ [](pc = "except" => <>(pc = "loop" /\ exc = "none"))
  /\ <>(pc = "done")

\* the run ended; an earlier row failed and the write of its ERROR status
\* failed too, and a later row was processed to the end
C16_Witness ==
  /\ pc = "done"
  /\ \E r1, r2 \in Rows :
       /\ r1 < r2
       /\ rowlog[r1].exc # "none" /\ rowlog[r1].errWriteFailed
       /\ rowlog[r2].visited /\ rowlog[r2].flagWritten

\* C17: after a finished row, if the ERROR status was written to the flag
\* cell in this run then the output cell was not written and nothing was
\* uploaded for the row, and if the output cell was written then the flag
\* cell holds a COMPRESSED or LARGE_FILE status.
C17_StatusConsistent ==
  \A r \in Rows :
    Finished(r)
      => /\ rowlog[r].errWritten
              => (~rowlog[r].outWritten /\ ~rowlog[r].uploaded)
         /\ rowlog[r].outWritten
              => flagCell[r].tag \in {"COMPRESSED", "LARGE_FILE"}

\* C18: every raster handed to the composer, at every dpi of the search,
\* scales to a width and a height of at least 1 pixel.
C18_ScaledNonEmpty ==
  pc = "compose"
    => \A i \in 1..Len(images) :
         LET f == fit_image(images[i], target_px(TARGET_WIDTH_PT, dpi),
                            target_px(TARGET_HEIGHT_PT, dpi))
         IN  f.new_w >= 1 /\ f.new_h >= 1

====
